---------------------------- MODULE Spec2Model ----------------------------
(***************************************************************************)
(* Model of lib/routes/bilibili/dynamic.ts: the route handler that turns   *)
(* one page of a user's bilibili dynamics into feed items.                 *)
(*                                                                         *)
(* JavaScript values are tagged records.  A string is a sequence of atoms: *)
(* an atom is one character of input text, or one literal fragment of a    *)
(* template of the source.  The source's non-ASCII literals are written in *)
(* pinyin: "//zhuan-fa-zi: " is the source's repost marker (line 142 and   *)
(* line 271), "shipin-dizhi:" and the like are the link labels of getUrl.  *)
(***************************************************************************)
EXTENDS Integers, Sequences, FiniteSets, TLC

VARIABLES
    opts,        \* showEmoji, disableEmbed, displayArticle, useAvid, directLink
    cached,      \* what cacheIn.getUsernameAndFaceFromUID resolves to
    cards,       \* response.data.cards
    phase,       \* position of handler()
    cache,       \* the shared cache (the two bili-user*-from-uid keys)
    cacheLog,    \* every cache.set of the handler, with the number of entries started
    author,      \* handler-level const author
    face,        \* handler-level const face
    started,     \* number of cards the map callback has been called on
    pc,          \* per-entry callback: position
    cell,        \* storage of the callbacks' local variables (link, data_content)
    items,       \* per-entry callback: the item its promise fulfilled with
    fetched,     \* per-entry: what getArticleDataFromCvid settled with
    result       \* what the handler's promise settled with

vars == <<opts, cached, cards, phase, cache, cacheLog, author, face, started,
          pc, cell, items, fetched, result>>

---------------------------------------------------------------------------
(* JavaScript values *)

Undef == [t |-> "undefined"]
Null == [t |-> "null"]
NaN == [t |-> "NaN"]
S(s) == [t |-> "string", s |-> s]
N(a) == [t |-> "number", n |-> a]
Obj(f) == [t |-> "object", f |-> f]
Arr(a) == [t |-> "array", a |-> a]
Empty == S(<<>>)

\* A string holding JSON text: parse is what JSONbig.parse returns for it,
\* or SyntaxError when the text is no JSON.
SyntaxError == [t |-> "SyntaxError"]
Json(v) == [t |-> "string", s |-> <<"{json}">>, parse |-> v]
BadJson == [t |-> "string", s |-> <<"{bad">>, parse |-> SyntaxError]
JSONparse(v) == v.parse

\* Property read; reading a property of a string or number gives undefined.
\* A read of a property of undefined or null throws: the callers that can
\* meet one test IsNullish first.
Get(v, k) == IF v.t = "object" /\ k \in DOMAIN v.f THEN v.f[k] ELSE Undef
IsNullish(v) == v.t \in {"undefined", "null"}

Truthy(v) ==
    CASE v.t \in {"undefined", "null", "NaN"} -> FALSE
      [] v.t = "string" -> v.s # <<>>
      [] v.t = "number" -> v.n # "0"
      [] OTHER -> TRUE

\* a || b and a && b
Or(a, b) == IF Truthy(a) THEN a ELSE b
And(a, b) == IF Truthy(a) THEN b ELSE a

\* String(v): what a template literal or a string concatenation makes of v
ToStr(v) ==
    CASE v.t = "string" -> v.s
      [] v.t = "number" -> <<v.n>>
      [] v.t = "undefined" -> <<"undefined">>
      [] v.t = "null" -> <<"null">>
      [] v.t = "NaN" -> <<"NaN">>
      [] v.t = "array" -> <<"[array]">>
      [] OTHER -> <<"[object Object]">>

\* a + b: concatenation when either side is a string, else the sum of
\* undefined/null/NaN operands, which is NaN whenever one is undefined or NaN
Plus(a, b) ==
    IF a.t \in {"string", "object", "array"} \/ b.t \in {"string", "object", "array"}
    THEN S(ToStr(a) \o ToStr(b))
    ELSE NaN

\* s contains the atoms of sub, consecutively
Contains(s, sub) ==
    \E i \in 0..(Len(s) - Len(sub)) :
        \A j \in 1..Len(sub) : s[i + j] = sub[j]

StartsWith(s, pre) ==
    Len(s) >= Len(pre) /\ \A j \in 1..Len(pre) : s[j] = pre[j]

---------------------------------------------------------------------------
(* Field extractors, lines 139-145 *)

getTitle(data) ==
    IF Truthy(data)
    THEN Or(Or(Or(Or(Get(data, "title"), Get(data, "description")), Get(data, "content")),
               And(Get(data, "vest"), Get(Get(data, "vest"), "content"))), Empty)
    ELSE Empty

SketchSuffix(data) ==
    And(Get(data, "sketch"),
        S(<<"<br>">> \o ToStr(Get(Get(data, "sketch"), "title")) \o <<"<br>">>
            \o ToStr(Get(Get(data, "sketch"), "desc_text"))))

VestPlusSketch(data) ==
    Plus(And(Get(data, "vest"), Get(Get(data, "vest"), "content")), SketchSuffix(data))

getDes(data) ==
    Or(Or(Or(Or(Or(Or(Or(Get(data, "dynamic"), Get(data, "desc")), Get(data, "description")),
                      Get(data, "content")), Get(data, "summary")),
              VestPlusSketch(data)), Get(data, "intro")), Empty)

getOriginDes(data) ==
    Or(And(data,
           Plus(And(And(Get(data, "apiSeasonInfo"), Get(Get(data, "apiSeasonInfo"), "title")),
                    S(<<"//zhuan-fa-zi: ">> \o ToStr(Get(Get(data, "apiSeasonInfo"), "title")))),
                And(Get(data, "index_title"),
                    S(<<"<br>">> \o ToStr(Get(data, "index_title")))))),
       Empty)

getOriginName(data) ==
    Or(Or(Or(Or(Or(Get(data, "uname"),
                   And(Get(data, "author"), Get(Get(data, "author"), "name"))),
                And(Get(data, "upper"), Get(Get(data, "upper"), "name"))),
             And(Get(data, "user"),
                 Or(Get(Get(data, "user"), "uname"), Get(Get(data, "user"), "name")))),
          And(Get(data, "owner"), Get(Get(data, "owner"), "name"))),
       Empty)

getOriginTitle(data) ==
    IF Truthy(Get(data, "title")) THEN S(ToStr(Get(data, "title")) \o <<"<br>">>) ELSE Empty

---------------------------------------------------------------------------
(* Media, lines 145-175 and 192-196 *)

\* utils.iframe(aid): the player embed for a video id
iframe(aid) == <<"<iframe src=\"//player.bilibili.com/player.html?aid=">> \o ToStr(aid) \o <<"\"></iframe>">>

getIframe(data, o) ==
    IF ~o.disableEmbed /\ Truthy(data) /\ Truthy(Get(data, "aid"))
    THEN S(<<"<br><br>">> \o iframe(Get(data, "aid")) \o <<"<br>">>)
    ELSE Empty

ImgTag(src) == <<"<img src=\"">> \o ToStr(src) \o <<"\">">>

RECURSIVE PictureTags(_)
PictureTags(a) ==
    IF a = <<>> THEN <<>> ELSE ImgTag(Get(Head(a), "img_src")) \o PictureTags(Tail(a))

RECURSIVE UrlTags(_)
UrlTags(a) ==
    IF a = <<>> THEN <<>> ELSE ImgTag(Head(a)) \o UrlTags(Tail(a))

ArrayOf(v) == IF v.t = "array" THEN v.a ELSE <<>>

getImgs(data) ==
    S((IF Truthy(Get(data, "pictures")) THEN PictureTags(ArrayOf(Get(data, "pictures"))) ELSE <<>>)
      \o (IF Truthy(Get(data, "image_urls")) THEN UrlTags(ArrayOf(Get(data, "image_urls"))) ELSE <<>>)
      \o (IF Truthy(Get(data, "pic")) THEN ImgTag(Get(data, "pic")) ELSE <<>>)
      \o (IF Truthy(Get(data, "cover")) /\ Truthy(Get(Get(data, "cover"), "unclipped"))
          THEN ImgTag(Get(Get(data, "cover"), "unclipped"))
          ELSE IF Truthy(Get(data, "cover")) THEN ImgTag(Get(data, "cover")) ELSE <<>>)
      \o (IF Truthy(Get(data, "sketch")) /\ Truthy(Get(Get(data, "sketch"), "cover_url"))
          THEN ImgTag(Get(Get(data, "sketch"), "cover_url"))
          ELSE <<>>))

\* unescape(): a %XX escape becomes its character
unescape(s) == [i \in 1..Len(s) |-> IF s[i] = "%2F" THEN "/" ELSE s[i]]

\* .replace(/^http:/, 'https:')
ToHttps(s) == IF s # <<>> /\ s[1] = "http:" THEN <<"https:">> \o Tail(s) ELSE s

videoHTML(data) ==
    IF Truthy(Get(data, "video_playurl"))
    THEN S(<<"<video width=\"">> \o ToStr(Get(data, "width")) \o <<"\" height=\"">>
           \o ToStr(Get(data, "height")) \o <<"\" controls><source src=\"">>
           \o ToHttps(unescape(ToStr(Get(data, "video_playurl"))))
           \o <<"\"><source src=\"">>
           \o unescape(ToStr(Get(data, "video_playurl")))
           \o <<"\"></video>">>)
    ELSE Empty

---------------------------------------------------------------------------
(* Body text: line breaks (line 214) and emoji (lines 215-223) *)

\* .replaceAll('\r\n', '<br>').replaceAll('\n', '<br>')
RECURSIVE CrLfToBr(_)
CrLfToBr(s) ==
    IF s = <<>> THEN <<>>
    ELSE IF Len(s) >= 2 /\ s[1] = "\r" /\ s[2] = "\n" THEN <<"<br>">> \o CrLfToBr(Tail(Tail(s)))
    ELSE <<Head(s)>> \o CrLfToBr(Tail(s))

LfToBr(s) == [i \in 1..Len(s) |-> IF s[i] = "\n" THEN "<br>" ELSE s[i]]

LineBreaks(s) == LfToBr(CrLfToBr(s))

\* .replaceAll(/\\?/g, '\\?'): the pattern matches a backslash or, where there
\* is none, the empty string, at every position and at the end
RECURSIVE EscapeQuestion(_)
EscapeQuestion(s) ==
    IF s = <<>> THEN <<"\\", "?">>
    ELSE IF Head(s) = "\\" THEN <<"\\", "?">> \o EscapeQuestion(Tail(s))
    ELSE <<"\\", "?", Head(s)>> \o EscapeQuestion(Tail(s))

\* the source text handed to new RegExp (line 219)
EmojiPattern(text) == EscapeQuestion(<<"\\">> \o text)

\* new RegExp(src): the pattern as a sequence of character sets.  \c is the
\* character c; [...] is a class, in which \c is c and every other character
\* is itself; any other character is itself.
RECURSIVE ClassEnd(_, _)
ClassEnd(src, p) ==
    IF p > Len(src) THEN 0
    ELSE IF src[p] = "\\" THEN ClassEnd(src, p + 2)
    ELSE IF src[p] = "]" THEN p
    ELSE ClassEnd(src, p + 1)

ClassSet(src, from, to) ==
    {src[q] : q \in {q \in from..to : src[q] # "\\" \/ (q > from /\ src[q - 1] = "\\")}}

RECURSIVE Compile(_, _)
Compile(src, p) ==
    IF p > Len(src) THEN <<>>
    ELSE IF src[p] = "\\" /\ p < Len(src) THEN <<{src[p + 1]}>> \o Compile(src, p + 2)
    ELSE IF src[p] = "[" /\ ClassEnd(src, p + 1) > 0
         THEN <<ClassSet(src, p + 1, ClassEnd(src, p + 1) - 1)>>
                  \o Compile(src, ClassEnd(src, p + 1) + 1)
    ELSE <<{src[p]}>> \o Compile(src, p + 1)

MatchAt(s, p, re) ==
    /\ p + Len(re) - 1 <= Len(s)
    /\ \A j \in 1..Len(re) : s[p + j - 1] \in re[j]

\* s.replaceAll(re, rep) for a global pattern of fixed length
RECURSIVE RegexReplaceAll(_, _, _, _)
RegexReplaceAll(s, p, re, rep) ==
    IF p > Len(s) THEN <<>>
    ELSE IF MatchAt(s, p, re) THEN rep \o RegexReplaceAll(s, p + Len(re), re, rep)
    ELSE <<s[p]>> \o RegexReplaceAll(s, p + 1, re, rep)

EmojiImg(e) ==
    <<"<img alt=\"">> \o ToStr(Get(e, "text")) \o <<"\" src=\"">> \o ToStr(Get(e, "url"))
        \o <<"\"style=\"margin: -1px 1px 0px; display: inline-block; width: 20px; height: 20px; vertical-align: text-bottom;\" title=\"\" referrerpolicy=\"no-referrer\">">>

EmojiRegExp(text) == Compile(EmojiPattern(text), 1)

RECURSIVE EmojiLoop(_, _)
EmojiLoop(s, emoji) ==
    IF emoji = <<>> THEN s
    ELSE EmojiLoop(RegexReplaceAll(s, 1, EmojiRegExp(ToStr(Get(Head(emoji), "text"))),
                                   EmojiImg(Head(emoji))),
                   Tail(emoji))

\* lines 215-223, for an entry whose display is an object
EmojiStep(s, item, o) ==
    IF Truthy(Get(Get(item, "display"), "emoji_info")) /\ o.showEmoji
    THEN EmojiLoop(s, ArrayOf(Get(Get(Get(item, "display"), "emoji_info"), "emoji_details")))
    ELSE s

---------------------------------------------------------------------------
(* Link resolver, lines 224-261 *)

\* v?.k
OptGet(v, k) == IF IsNullish(v) THEN Undef ELSE Get(v, k)

VideoId(data, item, o) ==
    IF o.useAvid
    THEN S(<<"av">> \o ToStr(Get(data, "aid")))
    ELSE Or(OptGet(OptGet(item, "desc"), "bvid"),
            OptGet(OptGet(OptGet(item, "desc"), "origin"), "bvid"))

\* which if-branch of getUrl returns
UrlBranch(data) ==
    CASE ~Truthy(data) -> "none"
      [] Truthy(Get(data, "aid")) -> "video"
      [] Truthy(Get(data, "image_urls")) -> "article"
      [] Truthy(Get(data, "upper")) -> "audio"
      [] Truthy(Get(data, "roomid")) -> "live"
      [] Truthy(Get(data, "sketch")) -> "sketch"
      [] Truthy(Get(data, "url")) -> "url"
      [] OTHER -> "none"

\* the value of the local url in the branch taken
UrlValue(data, item, o) ==
    CASE UrlBranch(data) = "video" ->
            S(<<"https://www.bilibili.com/video/">> \o ToStr(VideoId(data, item, o)))
      [] UrlBranch(data) = "article" ->
            S(<<"https://www.bilibili.com/read/cv">> \o ToStr(Get(data, "id")))
      [] UrlBranch(data) = "audio" ->
            S(<<"https://www.bilibili.com/audio/au">> \o ToStr(Get(data, "id")))
      [] UrlBranch(data) = "live" ->
            S(<<"https://live.bilibili.com/">> \o ToStr(Get(data, "roomid")))
      [] UrlBranch(data) = "sketch" -> Get(Get(data, "sketch"), "target_url")
      [] UrlBranch(data) = "url" -> Get(data, "url")
      [] OTHER -> Undef

UrlLabel(data) ==
    CASE UrlBranch(data) = "video" -> "<br>shipin-dizhi:<a href="
      [] UrlBranch(data) = "article" -> "<br>zhuanlan-dizhi:<a href="
      [] UrlBranch(data) = "audio" -> "<br>yinpin-dizhi:<a href="
      [] UrlBranch(data) = "live" -> "<br>zhibojian-dizhi:<a href="
      [] UrlBranch(data) = "sketch" -> "<br>huodong-dizhi:<a href="
      [] OTHER -> "<br>dizhi:<a href="

Anchor(label, url) == <<label>> \o ToStr(url) \o <<">">> \o ToStr(url) \o <<"</a>">>

\* what getUrl(data) returns
getUrl(data, item, o) ==
    IF UrlBranch(data) = "none" THEN <<>>
    ELSE Anchor(UrlLabel(data), UrlValue(data, item, o))

\* getUrl assigning link whether or not directLink is set
LinkAfterUnconditional(link, data, item, o) ==
    IF UrlBranch(data) # "none" THEN UrlValue(data, item, o) ELSE link

\* link after getUrl(data) ran: directLink && (link = url)
LinkAfter(link, data, item, o) ==
    IF o.directLink /\ UrlBranch(data) # "none" THEN UrlValue(data, item, o) ELSE link

---------------------------------------------------------------------------
(* The map callback, lines 178-280 *)

ParsedOf(item) == JSONparse(Get(item, "card"))

\* line 181
DataOf(item) ==
    IF Truthy(getTitle(Get(ParsedOf(item), "item")))
    THEN Get(ParsedOf(item), "item")
    ELSE ParsedOf(item)

\* line 182
OriginOf(item) ==
    IF Truthy(Get(ParsedOf(item), "origin")) THEN JSONparse(Get(ParsedOf(item), "origin")) ELSE Null

OriginItem(origin) == Or(Get(origin, "item"), origin)

\* lines 204-209
DefaultLink(item) ==
    IF Truthy(Get(DataOf(item), "dynamic_id"))
    THEN S(<<"https://t.bilibili.com/">> \o ToStr(Get(DataOf(item), "dynamic_id")))
    ELSE IF Truthy(OptGet(OptGet(item, "desc"), "dynamic_id"))
    THEN S(<<"https://t.bilibili.com/">> \o ToStr(Get(Get(item, "desc"), "dynamic_id")))
    ELSE Empty

\* the exception the callback's synchronous part ends with, or "no"
SyncThrows(item) ==
    CASE ParsedOf(item) = SyntaxError -> "SyntaxError card"
      [] OriginOf(item) = SyntaxError -> "SyntaxError origin"
      [] getDes(DataOf(item)).t # "string" -> "TypeError replaceAll"
      [] IsNullish(Get(item, "display")) -> "TypeError display"
      [] OTHER -> "no"

\* the callback's local variables when line 263 is reached
SyncFrame(item, o) ==
    [imgHTML |-> S(ToStr(getImgs(DataOf(item)))
                   \o (IF Truthy(OriginOf(item))
                       THEN ToStr(getImgs(OriginItem(OriginOf(item))))
                       ELSE <<>>)),
     videoHTML |-> videoHTML(DataOf(item)),
     link |-> DefaultLink(item),
     data_content |-> S(EmojiStep(LineBreaks(ToStr(getDes(DataOf(item)))), item, o))]

\* line 263: the callback awaits getArticleDataFromCvid
Suspends(item, o) == Truthy(Get(DataOf(item), "image_urls")) /\ o.displayArticle

\* parseDate(x, 'X'): the date at epoch second x
DigitValue(c) ==
    CASE c = "0" -> 0 [] c = "1" -> 1 [] c = "2" -> 2 [] c = "3" -> 3 [] c = "4" -> 4
      [] c = "5" -> 5 [] c = "6" -> 6 [] c = "7" -> 7 [] c = "8" -> 8 [] OTHER -> 9

RECURSIVE ParseDigits(_, _)
ParseDigits(s, acc) ==
    IF s = <<>> THEN acc ELSE ParseDigits(Tail(s), acc * 10 + DigitValue(Head(s)))

parseDate(x) == [t |-> "date", epoch |-> ParseDigits(ToStr(x), 0)]

\* line 271 looking the author up on origin.item instead of on origin
originNameOfItem(origin) ==
    IF Truthy(origin) /\ Truthy(getOriginName(OriginItem(origin)))
    THEN S(<<"<br><br>", "//zhuan-fa-zi: ", "@">> \o ToStr(getOriginName(OriginItem(origin)))
           \o <<": ">> \o ToStr(getOriginTitle(OriginItem(origin)))
           \o ToStr(getDes(OriginItem(origin))))
    ELSE getOriginDes(origin)

\* line 271
originName(origin) ==
    IF Truthy(origin) /\ Truthy(getOriginName(origin))
    THEN S(<<"<br><br>", "//zhuan-fa-zi: ", "@">> \o ToStr(getOriginName(origin)) \o <<": ">>
           \o ToStr(getOriginTitle(OriginItem(origin))) \o ToStr(getDes(OriginItem(origin))))
    ELSE getOriginDes(origin)

\* lines 269-275, with the frame's variables as they are at line 267
Description(item, o, fr) ==
    S(ToStr(Or(fr.data_content, getDes(DataOf(item))))
      \o ToStr(originName(OriginOf(item)))
      \o <<"<br>">>
      \o getUrl(DataOf(item), item, o)
      \o getUrl(OriginOf(item), item, o)
      \o ToStr(getIframe(DataOf(item), o))
      \o ToStr(getIframe(OriginOf(item), o))
      \o (IF Truthy(fr.imgHTML) THEN <<"<br>">> \o ToStr(fr.imgHTML) ELSE <<>>)
      \o (IF Truthy(fr.videoHTML) THEN <<"<br>">> \o ToStr(fr.videoHTML) ELSE <<>>))

\* the frame after the description was evaluated: getUrl(data), then
\* getUrl(origin), each assigning link under directLink
FrameAfterUrls(item, o, fr) ==
    [fr EXCEPT !.link = LinkAfter(LinkAfter(fr.link, DataOf(item), item, o),
                                  OriginOf(item), item, o)]

PubDate(item) ==
    IF Truthy(OptGet(OptGet(item, "desc"), "timestamp"))
    THEN parseDate(Get(Get(item, "desc"), "timestamp"))
    ELSE Null

\* lines 267-279
ReturnedItem(item, o, auth, fr) ==
    [title |-> getTitle(DataOf(item)),
     description |-> Description(item, o, fr),
     pubDate |-> PubDate(item),
     link |-> FrameAfterUrls(item, o, fr).link,
     author |-> auth]

---------------------------------------------------------------------------
(* Inputs: the post shapes of the source's header comment (lines 22-70) *)

MaxCards == 2
MaxLen == 4

User(k, n) == Obj([x \in {k} |-> S(<<n>>)])

TextPost == Obj([user |-> User("uname", "u1"), item |-> Obj([content |-> S(<<"c">>)])])
ImagePost ==
    Obj([user |-> User("name", "u2"),
         item |-> Obj([title |-> S(<<"T">>), description |-> S(<<"D">>),
                       pictures |-> Arr(<<Obj([img_src |-> S(<<"p1">>)]),
                                          Obj([img_src |-> S(<<"p2">>)])>>)])])
VideoPost ==
    Obj([aid |-> N("7"), owner |-> User("name", "u3"), pic |-> S(<<"pic">>),
         title |-> S(<<"T">>), desc |-> S(<<"d">>)])
ArticlePost ==
    Obj([author |-> User("name", "u4"), image_urls |-> Arr(<<S(<<"i1">>), S(<<"i2">>)>>),
         id |-> N("9"), title |-> S(<<"T">>), summary |-> S(<<"s">>)])
AudioPost ==
    Obj([id |-> N("5"), upper |-> S(<<"u5">>), title |-> S(<<"T">>),
         author |-> S(<<"a">>), cover |-> S(<<"cov">>)])
PollPost == Obj([user |-> User("uname", "u6"), item |-> Obj([content |-> S(<<"v", "?">>)])])
CampaignPost ==
    Obj([user |-> User("uname", "u7"), vest |-> Obj([content |-> S(<<"v">>)]),
         sketch |-> Obj([title |-> S(<<"st">>), desc_text |-> S(<<"sd">>),
                         cover_url |-> S(<<"sc">>), target_url |-> S(<<"su">>)])])
EpisodePost ==
    Obj([cover |-> S(<<"cov">>), index_title |-> S(<<"e1">>), url |-> S(<<"eu">>),
         apiSeasonInfo |-> Obj([title |-> S(<<"season">>), cover |-> S(<<"sc">>)])])
LivePost ==
    Obj([roomid |-> N("3"), uname |-> S(<<"u9">>), title |-> S(<<"T">>), cover |-> S(<<"cov">>)])

Variants ==
    {TextPost, ImagePost, VideoPost, ArticlePost, AudioPost, PollPost, CampaignPost,
     EpisodePost, LivePost}

\* further shapes upstream delivers
VestOnly == Obj([user |-> User("uname", "u7"), vest |-> Obj([content |-> S(<<"v">>)])])
SketchOnly ==
    Obj([sketch |-> Obj([title |-> S(<<"st">>), desc_text |-> S(<<"sd">>),
                         target_url |-> S(<<"su">>)])])
ClipPost ==
    Obj([user |-> User("name", "u2"),
         item |-> Obj([description |-> S(<<"D">>),
                       video_playurl |-> S(<<"http:", "%2F", "%2F", "v">>),
                       width |-> N("480"), height |-> N("270"),
                       cover |-> Obj([unclipped |-> S(<<"cu">>), default |-> S(<<"cd">>)])])])
TitledPost == Obj([item |-> Obj([title |-> S(<<"T">>), description |-> S(<<"D">>)])])
VideoWithId == Obj([aid |-> N("7"), title |-> S(<<"T">>), desc |-> S(<<"d">>), dynamic_id |-> N("77")])
MultiLine == Obj([item |-> Obj([content |-> S(<<"a", "\r", "\n", "b", "\n", "c">>)])])
SeasonOnly == Obj([apiSeasonInfo |-> Obj([title |-> S(<<"season">>)])])
VideoRepost ==
    Obj([aid |-> N("7"), title |-> S(<<"T">>), desc |-> S(<<"d">>), origin |-> Json(LivePost)])

Repost(origin) ==
    Obj([user |-> User("uname", "u1"), item |-> Obj([content |-> S(<<"r">>)]), origin |-> origin])

Reposts ==
    {Repost(Json(v)) : v \in Variants \cup {SeasonOnly, ClipPost}} \cup {Repost(BadJson), Repost(Empty)}

ShapeCards ==
    {Json(v) : v \in Variants \cup Reposts
                     \cup {VestOnly, SketchOnly, ClipPost, TitledPost, VideoWithId, MultiLine,
                           VideoRepost}}
        \cup {BadJson}

Digits(n) == <<"1", "6", "0", "0", "0", "0", "0", "0", "0", n>>

DescPlain == Obj([dynamic_id |-> N("123"), timestamp |-> S(Digits("0"))])
DescFull ==
    Obj([dynamic_id |-> N("456"), timestamp |-> S(Digits("7")), bvid |-> S(<<"BV1">>),
         origin |-> Obj([bvid |-> S(<<"BV2">>)]),
         user_profile |-> Obj([info |-> Obj([uname |-> S(<<"owner">>), face |-> S(<<"f.png">>)])])])
DescNoInfo == Obj([dynamic_id |-> N("789"), user_profile |-> Obj(<<>>)])

Emoji(text, url) == Obj([text |-> S(text), url |-> S(<<url>>)])
EmojiD == Emoji(<<"[", "d", "]">>, "e1")
EmojiDo == Emoji(<<"[", "d", "o", "]">>, "e2")
Display(details) == Obj([emoji_info |-> Obj([emoji_details |-> Arr(details)])])
NoEmoji == Obj(<<>>)

Entry(card, desc, display) == Obj([card |-> card, desc |-> desc, display |-> display])

ShapeEntries ==
    {Entry(c, d, y) : c \in ShapeCards, d \in {Undef, DescPlain, DescFull, DescNoInfo},
                      y \in {Undef, NoEmoji, Display(<<EmojiD>>)}}

\* body texts over the characters of an emoji shorthand
Alphabet == {"[", "d", "]", "?"}
Texts == UNION {[1..k -> Alphabet] : k \in 0..MaxLen}
EmojiEntries ==
    {Entry(Json(Obj([item |-> Obj([content |-> S(s)])])), DescPlain, y) :
        s \in Texts \ {<<>>}, y \in {Display(<<EmojiD>>), Display(<<EmojiDo, EmojiD>>)}}

Article2 == [ArticlePost EXCEPT !.f.id = N("10")]
BatchEntries ==
    {Entry(Json(ArticlePost), DescPlain, NoEmoji),
     Entry(Json(Article2), DescFull, NoEmoji),
     Entry(Json(TextPost), DescPlain, NoEmoji),
     Entry(Json(Repost(BadJson)), DescPlain, NoEmoji),
     Entry(Json(TitledPost), DescPlain, Undef)}

Flags == [showEmoji : BOOLEAN, disableEmbed : BOOLEAN, displayArticle : BOOLEAN,
          useAvid : BOOLEAN, directLink : BOOLEAN]
NoFlags == [showEmoji |-> FALSE, disableEmbed |-> FALSE, displayArticle |-> FALSE,
            useAvid |-> FALSE, directLink |-> FALSE]

\* getUsernameAndFaceFromUID: [name, face], each possibly missing
CacheHit == <<S(<<"cached">>), S(<<"cf.png">>)>>
CacheMiss == <<Undef, Undef>>

\* getArticleDataFromCvid: rejects, or resolves to an article
FetchFailed == [t |-> "rejected"]
FetchOutcomes ==
    {FetchFailed, Obj([description |-> S(<<"full", "[", "d", "]">>)]), Obj([description |-> Empty])}

None == [t |-> "none"]

---------------------------------------------------------------------------
(* The handler, lines 110-290 *)

Batches == UNION {[1..k -> BatchEntries] : k \in {0} \cup 2..MaxCards}

Init ==
    /\ \/ /\ opts \in Flags
          /\ cards \in {<<e>> : e \in ShapeEntries}
          /\ cached \in {CacheHit, CacheMiss}
       \/ /\ opts \in {[NoFlags EXCEPT !.showEmoji = b] : b \in BOOLEAN}
          /\ cards \in {<<e>> : e \in EmojiEntries}
          /\ cached = CacheHit
       \/ /\ opts \in {[NoFlags EXCEPT !.displayArticle = a, !.directLink = d] :
                          a \in BOOLEAN, d \in BOOLEAN}
          /\ cards \in Batches
          /\ cached \in {CacheHit, CacheMiss}
    /\ phase = "start"
    /\ cache = [username |-> None, userface |-> None]
    /\ cacheLog = <<>>
    /\ author = None
    /\ face = None
    /\ started = 0
    /\ pc = [i \in 1..Len(cards) |-> "idle"]
    /\ cell = [i \in 1..Len(cards) |-> None]
    /\ items = [i \in 1..Len(cards) |-> None]
    /\ fetched = [i \in 1..Len(cards) |-> None]
    /\ result = None

Rejected(why) == [t |-> "rejected", why |-> why]

\* lines 119-131: the cookie lookup and the upstream request
Fetch ==
    /\ phase = "start"
    /\ \E cookie \in BOOLEAN, feedOk \in BOOLEAN :
          IF ~cookie THEN /\ phase' = "rejected"
                          /\ result' = Rejected("no cookie")
          ELSE IF ~feedOk THEN /\ phase' = "rejected"
                               /\ result' = Rejected("request failed")
          ELSE /\ phase' = "identity"
               /\ result' = result
    /\ UNCHANGED <<opts, cached, cards, cache, cacheLog, author, face, started, pc, cell,
                   items, fetched>>

\* cards[0]?.desc?.user_profile
FirstProfile ==
    IF cards = <<>> THEN Undef ELSE OptGet(OptGet(cards[1], "desc"), "user_profile")

\* line 134 reads .info.uname of a profile that has no info
AuthorThrows ==
    IsNullish(cached[1]) /\ ~IsNullish(FirstProfile) /\ IsNullish(Get(FirstProfile, "info"))

ResolvedAuthor ==
    IF IsNullish(cached[1]) THEN OptGet(OptGet(FirstProfile, "info"), "uname") ELSE cached[1]

ResolvedFace ==
    IF IsNullish(cached[2]) THEN OptGet(OptGet(FirstProfile, "info"), "face") ELSE cached[2]

CacheSet(log, key, value) == Append(log, [key |-> key, value |-> value, started |-> started])

\* lines 133-137
ResolveIdentity ==
    /\ phase = "identity"
    /\ IF AuthorThrows
       THEN /\ phase' = "rejected"
            /\ result' = Rejected("TypeError info")
            /\ UNCHANGED <<author, face, cache, cacheLog>>
       ELSE /\ phase' = "map"
            /\ author' = ResolvedAuthor
            /\ face' = ResolvedFace
            /\ cache' = [username |-> ResolvedAuthor, userface |-> ResolvedFace]
            /\ cacheLog' = CacheSet(CacheSet(cacheLog, "username", ResolvedAuthor),
                                    "userface", ResolvedFace)
            /\ result' = result
    /\ UNCHANGED <<opts, cached, cards, started, pc, cell, items, fetched>>

\* the let-variables declared once in handler(), outside the callback
FrameShared(i) == 1

\* the activation of the callback for card i holds its let-variables
\* (lines 185, 193, 204, 212): one frame per call
Frame(i) == i

\* cards.map calls the callback on the next card; the call runs to its first
\* await (line 264), to its return or to an exception
MapEntry ==
    /\ phase = "map"
    /\ started < Len(cards)
    /\ started' = started + 1
    /\ LET i == started + 1
           item == cards[i]
           fr == SyncFrame(item, opts)
       IN  IF SyncThrows(item) # "no"
           THEN /\ pc' = [pc EXCEPT ![i] = "rejected"]
                /\ UNCHANGED <<cell, items>>
           ELSE IF Suspends(item, opts)
           THEN /\ pc' = [pc EXCEPT ![i] = "awaiting"]
                /\ cell' = [cell EXCEPT ![Frame(i)] = fr]
                /\ UNCHANGED items
           ELSE /\ pc' = [pc EXCEPT ![i] = "fulfilled"]
                /\ cell' = [cell EXCEPT ![Frame(i)] = FrameAfterUrls(item, opts, fr)]
                /\ items' = [items EXCEPT ![i] = ReturnedItem(item, opts, author, fr)]
    /\ UNCHANGED <<opts, cached, cards, phase, cache, cacheLog, author, face, fetched, result>>

\* line 177: map returned; the handler awaits Promise.all
MapDone ==
    /\ phase = "map"
    /\ started = Len(cards)
    /\ phase' = "all"
    /\ UNCHANGED <<opts, cached, cards, cache, cacheLog, author, face, started, pc, cell,
                   items, fetched, result>>

\* lines 264-280: getArticleDataFromCvid settled and the callback goes on
Resume(i) ==
    /\ phase \in {"all", "rejected"}
    /\ pc[i] = "awaiting"
    /\ \E r \in FetchOutcomes :
          /\ fetched' = [fetched EXCEPT ![i] = r]
          /\ IF r = FetchFailed
             THEN /\ pc' = [pc EXCEPT ![i] = "rejected"]
                  /\ UNCHANGED <<cell, items>>
             ELSE LET fr == [cell[Frame(i)] EXCEPT !.data_content = Get(r, "description")]
                  IN  /\ pc' = [pc EXCEPT ![i] = "fulfilled"]
                      /\ cell' = [cell EXCEPT ![Frame(i)] = FrameAfterUrls(cards[i], opts, fr)]
                      /\ items' = [items EXCEPT ![i] = ReturnedItem(cards[i], opts, author, fr)]
    /\ UNCHANGED <<opts, cached, cards, phase, cache, cacheLog, author, face, started, result>>

\* Promise.all rejects as soon as one callback's promise is rejected
AllReject ==
    /\ phase = "all"
    /\ \E i \in 1..Len(cards) : pc[i] = "rejected"
    /\ phase' = "rejected"
    /\ result' = Rejected("entry")
    /\ UNCHANGED <<opts, cached, cards, cache, cacheLog, author, face, started, pc, cell,
                   items, fetched>>

Uid == "2267573"

\* lines 283-289
Envelope ==
    [title |-> S(ToStr(author) \o <<" de bilibili dongtai">>),
     link |-> S(<<"https://space.bilibili.com/", Uid, "/dynamic">>),
     description |-> S(ToStr(author) \o <<" de bilibili dongtai">>),
     image |-> face,
     item |-> items]

\* Promise.all fulfils with the items in the order of the cards
AllResolve ==
    /\ phase = "all"
    /\ \A i \in 1..Len(cards) : pc[i] = "fulfilled"
    /\ phase' = "resolved"
    /\ result' = [t |-> "fulfilled", value |-> Envelope]
    /\ UNCHANGED <<opts, cached, cards, cache, cacheLog, author, face, started, pc, cell,
                   items, fetched>>

Next ==
    \/ Fetch
    \/ ResolveIdentity
    \/ MapEntry
    \/ MapDone
    \/ \E i \in 1..Len(cards) : Resume(i)
    \/ AllReject
    \/ AllResolve

Spec == Init /\ [][Next]_vars

---------------------------------------------------------------------------
(* Properties *)

Entries == 1..Len(cards)
Ran(i) == i <= started
Fulfilled(i) == pc[i] = "fulfilled"
\* the callback returned without having awaited the article fetch
Direct(i) == Fulfilled(i) /\ fetched[i] = None
Desc(i) == items[i].description.s
HasVideoTag(s) == \E j \in 1..Len(s) : s[j] = "<video width=\""
RepostMarker == <<"//zhuan-fa-zi: ", "@">>

\* C1: in full-text mode a failed article fetch for one entry leaves the batch
\* whole: the entry still yields its item, with the summary body in place of
\* the article, and the handler is not rejected by it.
C1_FetchFailureDegrades ==
    \A i \in Entries :
        fetched[i] = FetchFailed =>
            /\ Fulfilled(i)
            /\ items[i] = ReturnedItem(cards[i], opts, author, SyncFrame(cards[i], opts))

\* an entry that carries nothing but the card of one of the nine variants
BareVariant(item) == item \in {Entry(Json(v), Undef, Undef) : v \in Variants}

IsString(v) == v.t = "string"

\* C2: each of the nine variants with only its required fields normalizes
\* without an exception, to an item whose title, description and author are
\* strings and whose pubDate and link are a value or null / empty.
C2_VariantsNeverThrow ==
    \A i \in Entries :
        Ran(i) /\ BareVariant(cards[i]) =>
            /\ pc[i] # "rejected"
            /\ Fulfilled(i) =>
                  /\ IsString(items[i].title)
                  /\ IsString(items[i].description)
                  /\ IsString(items[i].author)
                  /\ items[i].pubDate.t \in {"date", "null"}
                  /\ items[i].link.t \in {"string", "null"}

\* the raw entry of the round-trip scenario
RoundTripEntry == Entry(Json(TitledPost), DescPlain, Undef)

\* C3: the entry {card: {"item": {"title": "T", "description": "D"}},
\* desc: {dynamic_id: 123, timestamp: "1600000000"}} normalizes to title "T",
\* a description starting with "D", link https://t.bilibili.com/123 and
\* pubDate at epoch second 1600000000.
C3_RoundTrip ==
    \A i \in Entries :
        Ran(i) /\ cards[i] = RoundTripEntry =>
            /\ Fulfilled(i)
            /\ items[i].title = S(<<"T">>)
            /\ StartsWith(Desc(i), <<"D">>)
            /\ items[i].link = S(<<"https://t.bilibili.com/", "123">>)
            /\ items[i].pubDate = [t |-> "date", epoch |-> 1600000000]

OriginUnparseable(item) ==
    /\ ParsedOf(item) # SyntaxError
    /\ Truthy(Get(ParsedOf(item), "origin"))
    /\ JSONparse(Get(ParsedOf(item), "origin")) = SyntaxError

\* the same entry with no origin in its payload
WithoutOrigin(item) ==
    Entry(Json(Obj([k \in DOMAIN ParsedOf(item).f \ {"origin"} |-> ParsedOf(item).f[k]])),
          Get(item, "desc"), Get(item, "display"))

\* C4: an entry whose nested origin payload cannot be parsed is normalized as
\* the same entry without origin, and neither it nor the batch fails.
C4_BadOriginIsNoOrigin ==
    \A i \in Entries :
        Ran(i) /\ OriginUnparseable(cards[i]) /\ ~IsNullish(Get(cards[i], "display")) =>
            /\ pc[i] # "rejected"
            /\ Fulfilled(i) =>
                  items[i] = ReturnedItem(WithoutOrigin(cards[i]), opts, author,
                                          SyncFrame(WithoutOrigin(cards[i]), opts))

\* some content URL was resolved for the entry, from its payload or its origin
Resolved(item) == UrlBranch(DataOf(item)) # "none" \/ UrlBranch(OriginOf(item)) # "none"

LinkLabels ==
    {"<br>shipin-dizhi:<a href=", "<br>zhuanlan-dizhi:<a href=", "<br>yinpin-dizhi:<a href=",
     "<br>zhibojian-dizhi:<a href=", "<br>huodong-dizhi:<a href=", "<br>dizhi:<a href="}

\* the description prints url as the target of a link line
PrintsUrl(s, url) == \E l \in LinkLabels : Contains(s, <<l>> \o ToStr(url) \o <<">">>)

\* https://t.bilibili.com/{dynamic_id}: the payload's id, else the entry's
Permalink(item) ==
    LET own == Get(DataOf(item), "dynamic_id")
        outer == OptGet(OptGet(item, "desc"), "dynamic_id")
    IN  IF Truthy(own) THEN S(<<"https://t.bilibili.com/", own.n>>)
        ELSE IF Truthy(outer) THEN S(<<"https://t.bilibili.com/", outer.n>>)
        ELSE Empty

\* C5: for an entry with a resolved content URL, directLink makes the item's
\* link a content URL the description prints (the origin's when the origin
\* resolved one, since it is written last), and without directLink the link
\* stays the dynamic-id permalink although a content URL is printed.
C5_DirectLink ==
    \A i \in Entries :
        Fulfilled(i) /\ Resolved(cards[i]) =>
            /\ \E l \in LinkLabels, j \in 1..Len(Desc(i)) : Desc(i)[j] = l
            /\ opts.directLink =>
                  /\ PrintsUrl(Desc(i), items[i].link)
                  /\ UrlBranch(OriginOf(cards[i])) # "none" =>
                        items[i].link = UrlValue(OriginOf(cards[i]), cards[i], opts)
            /\ ~opts.directLink => items[i].link = Permalink(cards[i])

C5_Witness ==
    \E i \in Entries :
        /\ Fulfilled(i)
        /\ opts.directLink
        /\ UrlBranch(DataOf(cards[i])) = "video"
        /\ UrlBranch(OriginOf(cards[i])) = "live"
        /\ items[i].link = S(<<"https://live.bilibili.com/", "3">>)
        /\ Permalink(cards[i]) = S(<<"https://t.bilibili.com/", "456">>)

\* s with every occurrence of the atoms tok replaced by rep, left to right
RECURSIVE LiteralReplaceAll(_, _, _)
LiteralReplaceAll(s, tok, rep) ==
    IF s = <<>> THEN <<>>
    ELSE IF StartsWith(s, tok)
    THEN rep \o LiteralReplaceAll(SubSeq(s, Len(tok) + 1, Len(s)), tok, rep)
    ELSE <<Head(s)>> \o LiteralReplaceAll(Tail(s), tok, rep)

\* an <img> tag with the token as alt text replaces the token
RECURSIVE WithEmoji(_, _)
WithEmoji(s, details) ==
    IF details = <<>> THEN s
    ELSE WithEmoji(LiteralReplaceAll(s, ToStr(Get(Head(details), "text")), EmojiImg(Head(details))),
                   Tail(details))

EmojiTable(item) == Get(Get(Get(item, "display"), "emoji_info"), "emoji_details")
PlainBody(item) == LineBreaks(ToStr(getDes(DataOf(item))))

\* C6: with showEmoji and an emoji table, every literal occurrence of each
\* declared token in the body is replaced by its <img> tag and nothing else
\* changes; without showEmoji the body is unchanged.
C6_EmojiSubstitution ==
    \A i \in Entries :
        Direct(i) =>
            cell[i].data_content.s =
                IF opts.showEmoji /\ Truthy(EmojiTable(cards[i]))
                THEN WithEmoji(PlainBody(cards[i]), ArrayOf(EmojiTable(cards[i])))
                ELSE PlainBody(cards[i])

C8_VideoOnlyWhenEmbedEnabled ==
    \A i \in Entries :
        Fulfilled(i) /\ (opts.disableEmbed \/ ~Truthy(Get(DataOf(cards[i]), "video_playurl")))
            => ~HasVideoTag(Desc(i))

\* the item the callback returns for an entry normalized on its own, given
\* what the article fetch (if any) resolved to
AloneItem(item, r) ==
    ReturnedItem(item, opts, author,
                 IF r = None THEN SyncFrame(item, opts)
                 ELSE [SyncFrame(item, opts) EXCEPT !.data_content = Get(r, "description")])

\* C9: under every interleaving of the callbacks, the two identity writes are
\* the only cache writes and happen before any entry started, each entry's
\* item is the item it yields alone, and the handler returns the items in the
\* order of the cards.
C9_EntriesIndependent ==
    /\ Len(cacheLog) <= 2
    /\ \A k \in 1..Len(cacheLog) : cacheLog[k].started = 0
    /\ phase \in {"map", "all", "resolved"} =>
          /\ Len(cacheLog) = 2
          /\ cache = [username |-> author, userface |-> face]
    /\ Len(cacheLog) = 0 => cache = [username |-> None, userface |-> None]
    /\ \A i \in Entries : Fulfilled(i) => items[i] = AloneItem(cards[i], fetched[i])
    /\ phase = "resolved" =>
          result.value.item = [i \in Entries |-> AloneItem(cards[i], fetched[i])]

\* the second entry went on from its fetch while the first still waits
C9_Witness ==
    /\ Len(cards) >= 2
    /\ pc[1] = "awaiting"
    /\ Fulfilled(2)
    /\ fetched[2] # None
    /\ items[2].link # DefaultLink(cards[1])

BodyFields == {"dynamic", "desc", "description", "content", "summary"}

\* C10: when vest.content is the first body field present, the body is
\* vest.content, followed by "<br>{sketch.title}<br>{sketch.desc_text}" only
\* if there is a sketch; with no body field at all the body is empty.
C10_SketchSuffixOptional ==
    \A i \in Entries :
        Direct(i) /\ (\A k \in BodyFields : ~Truthy(Get(DataOf(cards[i]), k))) =>
            LET data == DataOf(cards[i])
                vest == Get(Get(data, "vest"), "content")
                sketch == Get(data, "sketch")
            IN  /\ Truthy(vest) /\ ~Truthy(sketch) => cell[i].data_content = vest
                /\ Truthy(vest) /\ Truthy(sketch) =>
                      cell[i].data_content =
                          S(vest.s \o <<"<br>">> \o ToStr(Get(sketch, "title")) \o <<"<br>">>
                            \o ToStr(Get(sketch, "desc_text")))
                /\ ~Truthy(vest) /\ ~Truthy(sketch) /\ ~Truthy(Get(data, "intro")) =>
                      cell[i].data_content = Empty

=============================================================================
